---- MODULE Spec2Model ----
(***************************************************************************)
(* A model of lfg-seth/flashtastic: the Meshtastic field flasher            *)
(* (src/meshtastic__field_flasher.py) and the Windows Location API query    *)
(* (src/gps_test_com.py).                                                   *)
(*                                                                          *)
(* Text is a sequence of one-character strings, so that strip(), isdigit(), *)
(* int(), str(), zfill(), lower() and endswith() are computed character by  *)
(* character as Python computes them.  Process output is a sequence of      *)
(* bytes (0..255), the sink receives code points.                           *)
(***************************************************************************)
EXTENDS Integers, Sequences, FiniteSets, TLC

VARIABLES
    mode,           \* App.mode: the selected mode key
    field,          \* the eight tk.StringVar fields, by name
    save_after_id,  \* App._save_after_id: TRUE while it holds a timer id
    timers,         \* the armed root.after(300, _save_state) timers, oldest first:
                    \* TRUE once the 300 ms of a timer have passed
    state,          \* App._state: last_mode and the saved fields of each mode
    disk,           \* the content of state.json
    erase_btn,      \* TRUE while the Erase button is packed
    drive_values,   \* drive_combo["values"]
    fs_files,       \* environment: the paths that are existing files
    uf2_drives,     \* environment: the attached UF2 drive roots, in enumeration order
    workers,        \* the worker threads started so far, in start order
    clicks_left,    \* interface events the behaviour may still hold
    presses_left,   \* button presses the behaviour may still hold
    gps             \* get_lat_lon(): position, locals and outcome of one query

(***************************************************************************)
(* Python text primitives                                                   *)
(***************************************************************************)
Digits == {"0", "1", "2", "3", "4", "5", "6", "7", "8", "9"}

\* str.strip() removes these from both ends
Whitespace == {" "}

UpperLetters == <<"A","B","C","D","E","F","G","H","I","J","K","L","M",
                  "N","O","P","Q","R","S","T","U","V","W","X","Y","Z">>

LowerLetters == <<"a","b","c","d","e","f","g","h","i","j","k","l","m",
                  "n","o","p","q","r","s","t","u","v","w","x","y","z">>

RECURSIVE lstrip(_)
lstrip(s) == IF s # <<>> /\ Head(s) \in Whitespace THEN lstrip(Tail(s)) ELSE s

RECURSIVE rstrip(_)
rstrip(s) ==
    IF s # <<>> /\ s[Len(s)] \in Whitespace
    THEN rstrip(SubSeq(s, 1, Len(s) - 1))
    ELSE s

strip(s) == rstrip(lstrip(s))

isdigit(s) == s # <<>> /\ \A i \in 1..Len(s) : s[i] \in Digits

lower_char(c) ==
    IF \E i \in 1..26 : UpperLetters[i] = c
    THEN LowerLetters[CHOOSE i \in 1..26 : UpperLetters[i] = c]
    ELSE c

lower(s) == [i \in 1..Len(s) |-> lower_char(s[i])]

endswith(s, suffix) ==
    /\ Len(s) >= Len(suffix)
    /\ SubSeq(s, Len(s) - Len(suffix) + 1, Len(s)) = suffix

digit_value(c) ==
    CASE c = "0" -> 0 [] c = "1" -> 1 [] c = "2" -> 2 [] c = "3" -> 3
      [] c = "4" -> 4 [] c = "5" -> 5 [] c = "6" -> 6 [] c = "7" -> 7
      [] c = "8" -> 8 [] c = "9" -> 9

digit_char(d) == <<"0", "1", "2", "3", "4", "5", "6", "7", "8", "9">>[d + 1]

RECURSIVE digits_value(_)
digits_value(s) ==
    IF s = <<>> THEN 0
    ELSE digits_value(SubSeq(s, 1, Len(s) - 1)) * 10 + digit_value(s[Len(s)])

\* int(s): surrounding whitespace and one sign are accepted, anything else
\* that is not a run of digits raises ValueError (ok = FALSE).
int(s) ==
    LET t    == strip(s)
        sign == t # <<>> /\ t[1] \in {"-", "+"}
        body == IF sign THEN Tail(t) ELSE t
    IN  IF isdigit(body)
        THEN [ok |-> TRUE,
              val |-> IF sign /\ t[1] = "-" THEN 0 - digits_value(body)
                                            ELSE digits_value(body)]
        ELSE [ok |-> FALSE, val |-> 0]

RECURSIVE nat_str(_)
nat_str(n) ==
    IF n < 10 THEN <<digit_char(n)>>
    ELSE nat_str(n \div 10) \o <<digit_char(n % 10)>>

\* str(n) of an int
str(n) == IF n < 0 THEN <<"-">> \o nat_str(0 - n) ELSE nat_str(n)

RECURSIVE zeros(_)
zeros(k) == IF k <= 0 THEN <<>> ELSE <<"0">> \o zeros(k - 1)

\* a fill that pads nothing
zfill_none(s, width) == s

\* str.zfill(width): zeros go after a leading sign
zfill(s, width) ==
    IF Len(s) >= width THEN s
    ELSE IF s # <<>> /\ s[1] \in {"-", "+"}
         THEN <<s[1]>> \o zeros(width - Len(s)) \o Tail(s)
         ELSE zeros(width - Len(s)) \o s

\* the part of a float literal before the exponent: digits with at most one
\* point and at least one digit
float_mantissa_ok(mant) ==
    /\ \A i \in 1..Len(mant) : mant[i] \in Digits \cup {"."}
    /\ Cardinality({i \in 1..Len(mant) : mant[i] = "."}) <= 1
    /\ \E i \in 1..Len(mant) : mant[i] \in Digits

\* the position of the first "e" of low, 0 for none
float_epos(low) ==
    IF \E i \in 1..Len(low) : low[i] = "e"
    THEN CHOOSE i \in 1..Len(low) : low[i] = "e" /\ \A j \in 1..(i - 1) : low[j] # "e"
    ELSE 0

\* float(s) does not raise ValueError.  Each part is bound once: t is s
\* stripped, body is t without its sign, low is body in lower case, epos the
\* place of the exponent mark, mant and expo the parts around it.
float_ok(s) ==
    \E t \in {strip(s)} :
    \E body \in {IF t # <<>> /\ t[1] \in {"-", "+"} THEN Tail(t) ELSE t} :
    \E low \in {lower(body)} :
    \E epos \in {float_epos(low)} :
    \E mant \in {IF epos = 0 THEN low ELSE SubSeq(low, 1, epos - 1)} :
    \E expo \in {IF epos = 0 THEN <<>> ELSE SubSeq(low, epos + 1, Len(low))} :
    \E ebody \in {IF expo # <<>> /\ expo[1] \in {"-", "+"} THEN Tail(expo) ELSE expo} :
        \/ low \in {<<"n","a","n">>, <<"i","n","f">>,
                    <<"i","n","f","i","n","i","t","y">>}
        \/ float_mantissa_ok(mant) /\ (epos = 0 \/ isdigit(ebody))

(***************************************************************************)
(* src/meshtastic__field_flasher.py: constants                              *)
(***************************************************************************)
\* Text literals of the source
T_RAK_FW == <<"r","a","k","4","6","3","1",".","u","f","2">>

T_V3_FW == <<"h","e","l","t","e","c","_","v","3","_","c","l","i","e","n","t",".","b","i","n">>

T_V4_FW == <<"h","e","l","t","e","c","_","v","4","_","g","p","s",".","b","i","n">>

T_ROUTER == <<"R","O","U","T","E","R">>

T_CLIENT == <<"C","L","I","E","N","T">>

T_UF2_EXT == <<".","u","f","2">>

T_MESHTASTIC == <<"m","e","s","h","t","a","s","t","i","c">>

T_SETURL == <<"-","-","s","e","t","u","r","l">>

T_SET_OWNER == <<"-","-","s","e","t","-","o","w","n","e","r">>

T_SET_OWNER_SHORT == <<"-","-","s","e","t","-","o","w","n","e","r","-","s","h","o","r","t">>

T_SET == <<"-","-","s","e","t">>

T_NI_INTERVAL == <<"n","e","i","g","h","b","o","r","_","i","n","f","o",".","u","p","d","a","t","e","_","i","n","t","e","r","v","a","l">>

T_NI_LORA == <<"n","e","i","g","h","b","o","r","_","i","n","f","o",".","t","r","a","n","s","m","i","t","_","o","v","e","r","_","l","o","r","a">>

T_NI_ENABLED == <<"n","e","i","g","h","b","o","r","_","i","n","f","o",".","e","n","a","b","l","e","d">>

T_DEVICE_ROLE == <<"d","e","v","i","c","e",".","r","o","l","e">>

T_REBROADCAST == <<"d","e","v","i","c","e",".","r","e","b","r","o","a","d","c","a","s","t","_","m","o","d","e">>

T_OK_TO_MQTT == <<"l","o","r","a",".","c","o","n","f","i","g","_","o","k","_","t","o","_","m","q","t","t">>

T_FIXED_POSITION == <<"p","o","s","i","t","i","o","n",".","f","i","x","e","d","_","p","o","s","i","t","i","o","n">>

T_TRUE == <<"t","r","u","e">>

T_FALSE == <<"f","a","l","s","e">>

T_ALL == <<"A","L","L">>

T_120 == <<"1","2","0">>

T_SETLAT == <<"-","-","s","e","t","l","a","t">>

T_SETLON == <<"-","-","s","e","t","l","o","n">>

T_ESPTOOL == <<"e","s","p","t","o","o","l">>

T_BAUD == <<"-","-","b","a","u","d">>

T_115200 == <<"1","1","5","2","0","0">>

T_WRITE_FLASH == <<"w","r","i","t","e","-","f","l","a","s","h">>

T_0X00 == <<"0","x","0","0">>

T_ERASE_FLASH == <<"e","r","a","s","e","-","f","l","a","s","h">>

\* SETURL_VALUE, cut after the fragment marker (the payload is opaque here)
SETURL_VALUE == <<"h","t","t","p","s",":","/","/","m","e","s","h","t","a","s","t","i","c",".","o","r","g","/","e","/","#">>

MODE_DEFS ==
    [m \in {"RAK4631", "Heltec V3", "Heltec V4"} |->
        CASE m = "RAK4631" ->
                [label |-> "RAK4631 Router (UF2 Drive)", flash_method |-> "uf2_drive",
                 firmware_default |-> T_RAK_FW, gps_mode |-> "fixed", role |-> T_ROUTER]
          [] m = "Heltec V3" ->
                [label |-> "Heltec V3 Client (No GPS)", flash_method |-> "esptool",
                 firmware_default |-> T_V3_FW, gps_mode |-> "none", role |-> T_CLIENT]
          [] m = "Heltec V4" ->
                [label |-> "Heltec V4 Client (GPS)", flash_method |-> "esptool",
                 firmware_default |-> T_V4_FW, gps_mode |-> "gps", role |-> T_CLIENT]]

MODE_KEYS == <<"RAK4631", "Heltec V3", "Heltec V4">>

FieldNames == {"firmware_path", "uf2_drive", "owner_letters", "owner_num",
               "owner_short_letters", "owner_short_num", "lat", "lon"}

\* the StringVar values set in App.__init__
InitialFields ==
    [firmware_path |-> <<>>, uf2_drive |-> <<>>,
     owner_letters |-> <<"S","N","O","R","R"," ","T","E","S","T">>,
     owner_num |-> <<"0","1">>,
     owner_short_letters |-> <<"M","T">>,
     owner_short_num |-> <<"0","1">>,
     lat |-> <<"3","7",".","8","6","5","1">>,
     lon |-> <<"-","1","1","9",".","5","3","8","3">>]

(***************************************************************************)
(* Validation and command construction                                      *)
(***************************************************************************)
\* os.path.isfile / os.path.isdir against the environment
isfile(path, files) == path \in files

isdir(path, dirs) == path \in dirs

\* owner strings joined with a space between letters and number
_build_owner_strings_spaced(f) ==
    <<strip(f.owner_letters) \o <<" ">> \o strip(f.owner_num),
      strip(f.owner_short_letters) \o <<" ">> \o strip(f.owner_short_num)>>

\* App._build_owner_strings
_build_owner_strings(f) ==
    <<strip(f.owner_letters) \o strip(f.owner_num),
      strip(f.owner_short_letters) \o strip(f.owner_short_num)>>

\* a validation that leaves out the UF2 drive test
_validate_common_any_drive(m, f, files) ==
    LET d  == MODE_DEFS[m]
        fw == strip(f.firmware_path)
    IN  IF fw = <<>> \/ ~isfile(fw, files)
        THEN "Firmware file not set or not found."
        ELSE IF strip(f.owner_letters) = <<>>
        THEN "Owner letters required."
        ELSE IF ~isdigit(strip(f.owner_num))
        THEN "Owner number must be digits (e.g. 01)."
        ELSE IF strip(f.owner_short_letters) = <<>>
        THEN "Owner short letters required."
        ELSE IF ~isdigit(strip(f.owner_short_num))
        THEN "Owner short number must be digits (e.g. 01)."
        ELSE IF d.gps_mode = "fixed"
                /\ ~(float_ok(strip(f.lat)) /\ float_ok(strip(f.lon)))
        THEN "Latitude/Longitude must be valid numbers for fixed position mode."
        ELSE ""

\* App._validate_common: the message of the RuntimeError raised, "" for none
_validate_common(m, f, files) ==
    LET d  == MODE_DEFS[m]
        fw == strip(f.firmware_path)
    IN  IF fw = <<>> \/ ~isfile(fw, files)
        THEN "Firmware file not set or not found."
        ELSE IF d.flash_method = "uf2_drive" /\ strip(f.uf2_drive) = <<>>
        THEN "Select/detect the UF2 drive."
        ELSE IF strip(f.owner_letters) = <<>>
        THEN "Owner letters required."
        ELSE IF ~isdigit(strip(f.owner_num))
        THEN "Owner number must be digits (e.g. 01)."
        ELSE IF strip(f.owner_short_letters) = <<>>
        THEN "Owner short letters required."
        ELSE IF ~isdigit(strip(f.owner_short_num))
        THEN "Owner short number must be digits (e.g. 01)."
        ELSE IF d.gps_mode = "fixed"
                /\ ~(float_ok(strip(f.lat)) /\ float_ok(strip(f.lon)))
        THEN "Latitude/Longitude must be valid numbers for fixed position mode."
        ELSE ""

\* a configuration command with latitude and longitude exchanged
_meshtastic_config_cmd_swapped(m, f) ==
    LET d     == MODE_DEFS[m]
        owner == _build_owner_strings(f)
    IN  <<T_MESHTASTIC,
          T_SETURL, SETURL_VALUE,
          T_SET_OWNER, owner[1],
          T_SET_OWNER_SHORT, owner[2],
          T_SET, T_NI_INTERVAL, T_120,
          T_SET, T_NI_LORA, T_TRUE,
          T_SET, T_NI_ENABLED, T_TRUE,
          T_SET, T_DEVICE_ROLE, d.role,
          T_SET, T_REBROADCAST, T_ALL,
          T_SET, T_OK_TO_MQTT, T_TRUE>>
        \o (IF d.gps_mode = "fixed"
            THEN <<T_SET, T_FIXED_POSITION, T_TRUE,
                   T_SETLAT, strip(f.lon),
                   T_SETLON, strip(f.lat)>>
            ELSE <<T_SET, T_FIXED_POSITION, T_FALSE>>)

\* App._meshtastic_config_cmd
_meshtastic_config_cmd(m, f) ==
    LET d     == MODE_DEFS[m]
        owner == _build_owner_strings(f)
    IN  <<T_MESHTASTIC,
          T_SETURL, SETURL_VALUE,
          T_SET_OWNER, owner[1],
          T_SET_OWNER_SHORT, owner[2],
          T_SET, T_NI_INTERVAL, T_120,
          T_SET, T_NI_LORA, T_TRUE,
          T_SET, T_NI_ENABLED, T_TRUE,
          T_SET, T_DEVICE_ROLE, d.role,
          T_SET, T_REBROADCAST, T_ALL,
          T_SET, T_OK_TO_MQTT, T_TRUE>>
        \o (IF d.gps_mode = "fixed"
            THEN <<T_SET, T_FIXED_POSITION, T_TRUE,
                   T_SETLAT, strip(f.lat),
                   T_SETLON, strip(f.lon)>>
            ELSE <<T_SET, T_FIXED_POSITION, T_FALSE>>)

\* inc() of App._increment_owner_number: the new value of one number field
inc(v) ==
    LET s      == strip(v)
        parsed == IF s # <<>> THEN int(s) ELSE [ok |-> TRUE, val |-> 0]
        width  == IF parsed.ok /\ isdigit(s) /\ Len(s) > 0 THEN Len(s) ELSE 0
        n      == (IF parsed.ok THEN parsed.val ELSE 0) + 1
    IN  IF width > 0 THEN zfill(str(n), width) ELSE str(n)

(***************************************************************************)
(* src/gps_test_com.py: get_lat_lon()                                       *)
(***************************************************************************)
\* Bounds of the clock model, in whole seconds: how long one GetReport call
\* may take, and by how much a sleep may overshoot.
MaxCallSecs == 1

MaxOversleep == 1

\* while time.time() - start < 15
FixWindowSecs == 15

\* time.sleep(1)
PollSleepSecs == 1

\* S_OK and one failure HRESULT
HRESULTS == {0, 1}

app_vars == <<mode, field, save_after_id, timers, state, disk, erase_btn, drive_values,
              fs_files, uf2_drives, workers, clicks_left, presses_left>>

GpsInit ==
    gps = [pc |-> "create", hr |-> 0, report |-> FALSE, elapsed |-> 0,
           polls |-> 0, reported |-> FALSE, result |-> "none"]

\* hr = CoCreateInstance(...); if hr != 0: raise RuntimeError
CoCreateInstance ==
    /\ gps.pc = "create"
    /\ \E hr \in HRESULTS :
          gps' = IF hr # 0
                 THEN [gps EXCEPT !.hr = hr, !.pc = "raised",
                                  !.result = "CoCreateInstance failed"]
                 ELSE [gps EXCEPT !.hr = hr, !.pc = "while"]
    /\ UNCHANGED app_vars

\* time.time() - start < 15
window_open(elapsed) == elapsed < FixWindowSecs

\* the while test
PollWindowTest ==
    /\ gps.pc = "while"
    /\ gps' = [gps EXCEPT !.pc = IF window_open(gps.elapsed) THEN "poll"
                                                            ELSE "after"]
    /\ UNCHANGED app_vars

\* hr = GetReport(REPORT_TYPE_LATLONG, byref(report)); if hr == 0 and report: break
\* The call may write the out-parameter (a report or NULL) whatever it returns.
GetReport ==
    /\ gps.pc = "poll"
    /\ \E hr \in HRESULTS, rep \in BOOLEAN, d \in 0..MaxCallSecs :
          gps' = [gps EXCEPT !.hr = hr,
                             !.report = rep,
                             !.reported = gps.reported \/ rep,
                             !.polls = gps.polls + 1,
                             !.elapsed = gps.elapsed + d,
                             !.pc = IF hr = 0 /\ rep THEN "after" ELSE "sleep"]
    /\ UNCHANGED app_vars

\* time.sleep(1): at least one second
PollSleep ==
    /\ gps.pc = "sleep"
    /\ \E over \in 0..MaxOversleep :
          gps' = [gps EXCEPT !.elapsed = gps.elapsed + PollSleepSecs + over,
                             !.pc = "while"]
    /\ UNCHANGED app_vars

\* a check that never finds the report missing
no_fix_ignored(report) == FALSE

\* if not report
no_fix(report) == ~report

\* if not report: raise RuntimeError("No GPS fix")
FixCheck ==
    /\ gps.pc = "after"
    /\ gps' = IF no_fix(gps.report)
              THEN [gps EXCEPT !.pc = "raised", !.result = "No GPS fix"]
              ELSE [gps EXCEPT !.pc = "coords"]
    /\ UNCHANGED app_vars

\* GetLatitude / GetLongitude; return lat.value, lon.value
ReturnLatLon ==
    /\ gps.pc = "coords"
    /\ gps' = [gps EXCEPT !.pc = "returned", !.result = "lat,lon"]
    /\ UNCHANGED app_vars

GpsNext ==
    \/ CoCreateInstance
    \/ PollWindowTest
    \/ GetReport
    \/ PollSleep
    \/ FixCheck
    \/ ReturnLatLon

(***************************************************************************)
(* Persistence and mode logic                                               *)
(***************************************************************************)
ModeSet == {MODE_KEYS[i] : i \in 1..Len(MODE_KEYS)}

\* a mode without saved values: every saved.get(key) is empty
NoEntry == [k \in FieldNames |-> <<>>]

\* App._load_state when state.json is absent or unreadable: {}
EmptyState == [last_mode |-> "", modes |-> [m \in ModeSet |-> NoEntry]]

\* App._load_state
_load_state(file) == IF file.exists THEN file.content ELSE EmptyState

\* saved.get(key) or fallback
saved_or(value, fallback) == IF value # <<>> THEN value ELSE fallback

\* detect_uf2_drives: the removable drives holding a UF2 marker file
detect_uf2_drives(attached) == attached

\* App.refresh_drives: the drive selection it leaves
refresh_drives_value(current, drives) ==
    LET first == IF drives # <<>> /\ current = <<>> THEN drives[1] ELSE current
    IN  IF drives = <<>> THEN <<>> ELSE first

\* App.apply_mode: the field values it leaves (refresh_drives included)
apply_mode_fields(m, f, st, attached) ==
    LET d     == MODE_DEFS[m]
        saved == st.modes[m]
        drive == saved_or(saved.uf2_drive, <<>>)
    IN  [firmware_path |-> saved_or(saved.firmware_path, d.firmware_default),
         uf2_drive |-> IF d.flash_method = "uf2_drive"
                       THEN refresh_drives_value(drive, detect_uf2_drives(attached))
                       ELSE drive,
         owner_letters |-> saved_or(saved.owner_letters, f.owner_letters),
         owner_num |-> saved_or(saved.owner_num, f.owner_num),
         owner_short_letters |-> saved_or(saved.owner_short_letters, f.owner_short_letters),
         owner_short_num |-> saved_or(saved.owner_short_num, f.owner_short_num),
         lat |-> saved_or(saved.lat, f.lat),
         lon |-> saved_or(saved.lon, f.lon)]

\* App.apply_mode: the combobox values it leaves
apply_mode_values(m, values, attached) ==
    IF MODE_DEFS[m].flash_method = "uf2_drive"
    THEN detect_uf2_drives(attached)
    ELSE values

\* App.apply_mode, "show Erase only for Heltecs": whether the Erase button is
\* packed afterwards, given whether it was packed and what winfo_ismapped()
\* returns
apply_mode_erase(m, packed, ismapped) ==
    IF MODE_DEFS[m].flash_method = "esptool"
    THEN (IF ~ismapped THEN TRUE ELSE packed)
    ELSE (IF ismapped THEN FALSE ELSE packed)

\* erase_btn.winfo_ismapped() while the window is displayed: a packed button
\* is mapped
winfo_ismapped(packed) == packed

\* erase_btn.winfo_ismapped() in the apply_mode() call of App.__init__.  No
\* event has been processed yet, so no widget is mapped; only the
\* update_idletasks() of log_write, which refresh_drives calls when it
\* detects no drive, may have mapped the packed button before the test.
init_ismapped(m, attached) ==
    IF MODE_DEFS[m].flash_method = "uf2_drive" /\ detect_uf2_drives(attached) = <<>>
    THEN BOOLEAN
    ELSE {FALSE}

\* root.after_cancel(self._save_after_id): the id held is that of the timer
\* armed last
after_cancel(ts, id) == IF id /\ ts # <<>> THEN SubSeq(ts, 1, Len(ts) - 1) ELSE ts

\* a scheduling that arms a timer and cancels none
_schedule_save_uncancelled(ts, id) == Append(ts, FALSE)

\* App._schedule_save: the timers it leaves armed
_schedule_save(ts, id) == Append(after_cancel(ts, id), FALSE)

\* App.__init__: the mode restored from the loaded state
restored_mode(st) == IF st.last_mode \in ModeSet THEN st.last_mode ELSE MODE_KEYS[1]

\* App.__init__ with state.json holding `file`, the given files and drives
\* present, and room for `nclicks` interface events and `npresses` workers
AppInit(file, files, attached, nclicks, npresses) ==
    /\ disk = file
    /\ fs_files = files
    /\ uf2_drives = attached
    /\ state = _load_state(file)
    /\ mode = restored_mode(state)
    /\ field = apply_mode_fields(mode, InitialFields, state, attached)
    /\ drive_values = apply_mode_values(mode, <<>>, attached)
    /\ \E ismapped \in init_ismapped(mode, attached) :
          erase_btn = apply_mode_erase(mode, TRUE, ismapped)
    /\ save_after_id = TRUE
    /\ timers = _schedule_save(<<>>, FALSE)
    /\ workers = <<>>
    /\ clicks_left = nclicks
    /\ presses_left = npresses

ui_vars == <<mode, field, save_after_id, timers, state, disk, erase_btn, drive_values>>

env_vars == <<fs_files, uf2_drives>>

\* the mode buttons: set_mode(m) = mode.set(m); apply_mode()
set_mode(m) ==
    /\ clicks_left > 0
    /\ clicks_left' = clicks_left - 1
    /\ mode' = m
    /\ field' = apply_mode_fields(m, field, state, uf2_drives)
    /\ drive_values' = apply_mode_values(m, drive_values, uf2_drives)
    /\ erase_btn' = apply_mode_erase(m, erase_btn, winfo_ismapped(erase_btn))
    /\ save_after_id' = TRUE
    /\ timers' = _schedule_save(timers, save_after_id)
    /\ UNCHANGED <<state, disk, env_vars, workers, presses_left, gps>>

\* the entry of field k is shown and enabled
entry_enabled(k, m) ==
    CASE k \in {"lat", "lon"} -> MODE_DEFS[m].gps_mode = "fixed"
      [] k = "uf2_drive" -> MODE_DEFS[m].flash_method = "uf2_drive"
      [] OTHER -> TRUE

\* typing into an entry: the variable is written, the trace schedules a save
edit_field(k, v) ==
    /\ clicks_left > 0
    /\ clicks_left' = clicks_left - 1
    /\ entry_enabled(k, mode)
    /\ field[k] # v
    /\ field' = [field EXCEPT ![k] = v]
    /\ save_after_id' = TRUE
    /\ timers' = _schedule_save(timers, save_after_id)
    /\ UNCHANGED <<mode, state, disk, erase_btn, drive_values, env_vars, workers,
                   presses_left, gps>>

\* App.pick_firmware with the dialog returning the existing file p
pick_firmware(p) ==
    /\ clicks_left > 0
    /\ clicks_left' = clicks_left - 1
    /\ p # <<>>
    /\ field' = [field EXCEPT !.firmware_path = p]
    /\ save_after_id' = TRUE
    /\ timers' = _schedule_save(timers, save_after_id)
    /\ UNCHANGED <<mode, state, disk, erase_btn, drive_values, env_vars, workers,
                   presses_left, gps>>

\* App._increment_owner_number ("++")
_increment_owner_number ==
    /\ clicks_left > 0
    /\ clicks_left' = clicks_left - 1
    /\ field' = [field EXCEPT !.owner_num = inc(field.owner_num),
                              !.owner_short_num = inc(field.owner_short_num)]
    /\ save_after_id' = TRUE
    /\ timers' = _schedule_save(timers, save_after_id)
    /\ UNCHANGED <<mode, state, disk, erase_btn, drive_values, env_vars, workers,
                   presses_left, gps>>

\* App.refresh_drives (the Refresh button of the UF2 row)
refresh_drives ==
    /\ clicks_left > 0
    /\ clicks_left' = clicks_left - 1
    /\ MODE_DEFS[mode].flash_method = "uf2_drive"
    /\ drive_values' = detect_uf2_drives(uf2_drives)
    /\ field' = [field EXCEPT !.uf2_drive =
                    refresh_drives_value(field.uf2_drive, detect_uf2_drives(uf2_drives))]
    /\ LET written == \/ (detect_uf2_drives(uf2_drives) # <<>> /\ field.uf2_drive = <<>>)
                       \/ detect_uf2_drives(uf2_drives) = <<>>
       IN  /\ save_after_id' = (save_after_id \/ written)
           /\ timers' = IF written THEN _schedule_save(timers, save_after_id) ELSE timers
    /\ UNCHANGED <<mode, state, disk, erase_btn, env_vars, workers, presses_left, gps>>

\* the body of App._save_state: the id is dropped, the entry of the selected
\* mode is replaced by the current field values and state.json is rewritten
write_state ==
    /\ save_after_id' = FALSE
    /\ state' = [last_mode |-> mode, modes |-> [state.modes EXCEPT ![mode] = field]]
    /\ disk' = [exists |-> TRUE, content |-> state']
    /\ UNCHANGED <<mode, field, erase_btn, drive_values>>

\* App._save_state run by its timer, as one interface event: the 300 ms pass
\* and Tk runs the callback
_save_state ==
    /\ timers # <<>>
    /\ clicks_left > 0
    /\ clicks_left' = clicks_left - 1
    /\ timers' = Tail(timers)
    /\ write_state
    /\ UNCHANGED <<env_vars, workers, presses_left, gps>>

\* the 300 ms of the armed timers pass without a field change
timer_due ==
    /\ \E j \in 1..Len(timers) : ~timers[j]
    /\ timers' = [j \in 1..Len(timers) |-> TRUE]
    /\ UNCHANGED <<mode, field, save_after_id, state, disk, erase_btn, drive_values,
                   env_vars, workers, clicks_left, presses_left, gps>>

\* Tk runs the callback of a timer that is due: App._save_state
timer_fire ==
    /\ timers # <<>>
    /\ timers[1]
    /\ timers' = Tail(timers)
    /\ write_state
    /\ UNCHANGED <<env_vars, workers, clicks_left, presses_left, gps>>

(***************************************************************************)
(* Worker threads: flash_only, configure_only, erase_flash                  *)
(***************************************************************************)
\* wait_seconds(8, ...)
SettleSecs == 8

CR == 13

LF == 10

\* U+FFFD, what decode(errors="replace") yields for an undecodable byte
REPLACEMENT == 65533

\* the directories that exist whatever is attached
FixedDirs == {<<"C", ":", "\\">>}

dirs_present(attached) == FixedDirs \cup {attached[i] : i \in 1..Len(attached)}

\* a thread just started by one of the three buttons; `seen` is the mode
\* and the field values _validate_common read when it passed
NewWorker(kind) ==
    [kind |-> kind,
     pc |-> IF kind = "erase" THEN "mode_check" ELSE "validate",
     validated |-> FALSE,
     seen |-> [mode |-> "", field |-> NoEntry],
     method |-> "", fw |-> <<>>, drive |-> <<>>, cmd |-> <<>>,
     echoed |-> <<>>, launches |-> 0,
     output |-> <<>>, unwritten |-> <<>>, pipe |-> <<>>,
     closed |-> FALSE, exited |-> FALSE, rc |-> 0,
     sink |-> <<>>, logged |-> <<>>,
     copies |-> 0, copied |-> FALSE, waited |-> 0,
     err |-> "", err_rc |-> 0, errors_logged |-> 0, dialogs |-> 0]

\* a start that is refused while an earlier worker is still running
start_worker_idle(kind) ==
    /\ presses_left > 0
    /\ \A i \in 1..Len(workers) : workers[i].pc \in {"done", "failed"}
    /\ presses_left' = presses_left - 1
    /\ workers' = Append(workers, NewWorker(kind))
    /\ UNCHANGED <<ui_vars, env_vars, clicks_left, gps>>

\* threading.Thread(target=worker, daemon=True).start()
start_worker(kind) ==
    /\ presses_left > 0
    /\ presses_left' = presses_left - 1
    /\ workers' = Append(workers, NewWorker(kind))
    /\ UNCHANGED <<ui_vars, env_vars, clicks_left, gps>>

flash_only == start_worker("flash")

configure_only == start_worker("configure")

\* the Erase button can be pressed while it is shown
erase_flash == erase_btn /\ start_worker("erase")

\* log_write(tag ...) by a worker
log(w, tag, detail) == [w EXCEPT !.logged = Append(w.logged, <<tag, detail>>)]

\* raise RuntimeError(msg): control passes to the worker's except clause
raise(w, msg, rc) == [w EXCEPT !.pc = "except", !.err = msg, !.err_rc = rc]

step(i, w) ==
    /\ workers' = [workers EXCEPT ![i] = w]
    /\ UNCHANGED <<ui_vars, env_vars, clicks_left, presses_left, gps>>

\* erase_flash.worker: the mode test before _validate_common
erase_mode_check(i) ==
    /\ workers[i].pc = "mode_check"
    /\ step(i, IF MODE_DEFS[mode].flash_method # "esptool"
               THEN raise(workers[i], "Erase is only available for Heltec (esptool) modes.", 0)
               ELSE [workers[i] EXCEPT !.pc = "validate"])

\* worker: self._validate_common()
validate(i) ==
    /\ workers[i].pc = "validate"
    /\ LET msg == _validate_common(mode, field, fs_files)
       IN  step(i, IF msg # ""
                   THEN raise(workers[i], msg, 0)
                   ELSE [workers[i] EXCEPT !.pc = "mode_log", !.validated = TRUE,
                                           !.seen = [mode |-> mode, field |-> field]])

\* worker: self.log_write(f"Mode: {MODE_DEFS[self.mode.get()]['label']}\n")
mode_log(i) ==
    /\ workers[i].pc = "mode_log"
    /\ step(i, [log(workers[i], "Mode", MODE_DEFS[mode].label) EXCEPT !.pc = "do"])

\* an esptool command without the flash offset
flash_cmd_no_offset(fw) == <<T_ESPTOOL, T_BAUD, T_115200, T_WRITE_FLASH, fw>>

\* the esptool command of _do_flash
flash_cmd(fw) == <<T_ESPTOOL, T_BAUD, T_115200, T_WRITE_FLASH, T_0X00, fw>>

\* App._do_flash up to the call of copy_uf2_to_drive or run_cmd_stream
_do_flash(i) ==
    /\ workers[i].pc = "do"
    /\ workers[i].kind = "flash"
    /\ LET d  == MODE_DEFS[mode]
           fw == strip(field.firmware_path)
           w  == [workers[i] EXCEPT !.method = d.flash_method, !.fw = fw]
       IN  step(i, IF d.flash_method = "uf2_drive"
                   THEN [log(w, "Flashing (UF2 copy)...", "") EXCEPT
                            !.drive = strip(field.uf2_drive), !.pc = "copy"]
                   ELSE [log(w, "Flashing (esptool)...", "") EXCEPT
                            !.cmd = flash_cmd(fw), !.pc = "popen"])

\* checks that accept a source of any extension
copy_uf2_check_any_ext(uf2_path, drive_root, files, dirs) ==
    IF ~isfile(uf2_path, files)
    THEN "Firmware file not found."
    ELSE IF ~isdir(drive_root, dirs)
    THEN "Drive not found"
    ELSE ""

\* the three checks of copy_uf2_to_drive: the error raised, "" for none
copy_uf2_check(uf2_path, drive_root, files, dirs) ==
    IF ~isfile(uf2_path, files)
    THEN "Firmware file not found."
    ELSE IF ~endswith(lower(uf2_path), T_UF2_EXT)
    THEN "UF2 flashing requires a .uf2 file."
    ELSE IF ~isdir(drive_root, dirs)
    THEN "Drive not found"
    ELSE ""

\* copy_uf2_to_drive; shutil.copyfile may fail with an OSError
copy_uf2_to_drive(i) ==
    /\ workers[i].pc = "copy"
    /\ LET w   == workers[i]
           msg == copy_uf2_check(w.fw, w.drive, fs_files, dirs_present(uf2_drives))
       IN  IF msg # ""
           THEN step(i, raise(w, msg, 0))
           ELSE \E ok \in BOOLEAN :
                   LET c == [log(w, "Copying UF2", "") EXCEPT !.copies = w.copies + 1]
                   IN  step(i, IF ok
                               THEN [log(c, "Copy complete. Device may reboot.", "")
                                        EXCEPT !.copied = TRUE, !.pc = "settle"]
                               ELSE raise(c, "OSError", 0))

\* wait_seconds(8, self.log_write), then _do_flash returns
wait_seconds(i) ==
    /\ workers[i].pc = "settle"
    /\ step(i, [log(workers[i], "Waiting for reboot...", "") EXCEPT
                    !.waited = workers[i].waited + SettleSecs, !.pc = "done"])

\* App._do_configure up to the call of run_cmd_stream
_do_configure(i) ==
    /\ workers[i].pc = "do"
    /\ workers[i].kind = "configure"
    /\ step(i, [log(workers[i], "Configuring via Meshtastic CLI...", "") EXCEPT
                    !.cmd = _meshtastic_config_cmd(mode, field), !.pc = "popen"])

\* App._do_erase up to the call of run_cmd_stream
_do_erase(i) ==
    /\ workers[i].pc = "do"
    /\ workers[i].kind = "erase"
    /\ step(i, [log(workers[i], "Erasing flash (esptool erase-flash)...", "") EXCEPT
                    !.cmd = <<T_ESPTOOL, T_ERASE_FLASH>>, !.pc = "popen"])

(***************************************************************************)
(* run_cmd_stream and the process it runs                                   *)
(***************************************************************************)
\* run_cmd_stream: echo the command, subprocess.Popen.  Popen raises an
\* OSError when the executable cannot be started; otherwise the process will
\* write `out`.
Popen(i, outs) ==
    /\ workers[i].pc = "popen"
    /\ LET w == [workers[i] EXCEPT !.echoed = workers[i].cmd,
                                   !.launches = workers[i].launches + 1]
       IN  \/ step(i, raise(w, "OSError", 0))
           \/ \E out \in outs :
                 step(i, [w EXCEPT !.output = out, !.unwritten = out, !.pc = "read"])

\* the process writes one byte to its stdout/stderr pipe
proc_write(i) ==
    /\ workers[i].pc \in {"read", "wait"}
    /\ ~workers[i].closed
    /\ workers[i].unwritten # <<>>
    /\ step(i, [workers[i] EXCEPT !.pipe = Append(workers[i].pipe, Head(workers[i].unwritten)),
                                  !.unwritten = Tail(workers[i].unwritten)])

\* the process closes its end of the pipe
proc_close(i) ==
    /\ workers[i].pc \in {"read", "wait"}
    /\ ~workers[i].closed
    /\ workers[i].unwritten = <<>>
    /\ step(i, [workers[i] EXCEPT !.closed = TRUE])

\* the process exits with code rc
proc_exit(i, rcs) ==
    /\ workers[i].pc \in {"read", "wait"}
    /\ workers[i].closed
    /\ ~workers[i].exited
    /\ \E rc \in rcs : step(i, [workers[i] EXCEPT !.exited = TRUE, !.rc = rc])

\* b.decode("utf-8", errors="replace") of the single byte b
decode(b) == IF b < 128 THEN b ELSE REPLACEMENT

\* what is passed to log_fn for the character ch
forward(ch) == IF ch = CR THEN LF ELSE ch

\* b = out.read(1) with a byte available
read_byte(i) ==
    /\ workers[i].pc = "read"
    /\ workers[i].pipe # <<>>
    /\ step(i, [workers[i] EXCEPT
                    !.sink = Append(workers[i].sink, forward(decode(Head(workers[i].pipe)))),
                    !.pipe = Tail(workers[i].pipe)])

\* out.read(1) returns b"" at end of file: break
read_eof(i) ==
    /\ workers[i].pc = "read"
    /\ workers[i].pipe = <<>>
    /\ workers[i].closed
    /\ step(i, [workers[i] EXCEPT !.pc = "wait"])

\* a test that takes only exit code 1 for a failure
command_failed_one(rc) == rc = 1

\* if rc != 0
command_failed(rc) == rc # 0

\* rc = p.wait(); if rc != 0: raise RuntimeError(f"Command failed (exit {rc})")
wait(i) ==
    /\ workers[i].pc = "wait"
    /\ workers[i].exited
    /\ step(i, IF command_failed(workers[i].rc)
               THEN raise(workers[i], "Command failed", workers[i].rc)
               ELSE [workers[i] EXCEPT !.pc = "returned"])

\* the message logged after run_cmd_stream has returned
done_message(kind) ==
    CASE kind = "flash" -> "Flash done."
      [] kind = "configure" -> "Configuration complete."
      [] kind = "erase" -> "Erase complete."

\* _do_flash / _do_configure / _do_erase after run_cmd_stream
finish(i) ==
    /\ workers[i].pc = "returned"
    /\ step(i, [log(workers[i], done_message(workers[i].kind), "") EXCEPT !.pc = "done"])

\* a handler that reports the error and lets the action carry on
except_resume(i) ==
    /\ workers[i].pc = "except"
    /\ step(i, [log(workers[i], "ERROR", workers[i].err) EXCEPT
                    !.errors_logged = workers[i].errors_logged + 1,
                    !.dialogs = workers[i].dialogs + 1,
                    !.pc = "returned"])

\* except Exception as e: log_write(f"\nERROR: {e}\n"); messagebox.showerror(...)
except(i) ==
    /\ workers[i].pc = "except"
    /\ step(i, [log(workers[i], "ERROR", workers[i].err) EXCEPT
                    !.errors_logged = workers[i].errors_logged + 1,
                    !.dialogs = workers[i].dialogs + 1,
                    !.pc = "failed"])

\* a daemon thread when the interpreter exits: it ends where it is
killed(w) == IF w.pc \in {"done", "failed"} THEN w ELSE [w EXCEPT !.pc = "killed"]

\* App._exit_app (the Exit key): _save_state(), root.destroy().  The window
\* and its timers are gone, mainloop returns and the process ends, and with
\* it the daemon worker threads; no interface event follows.
_exit_app ==
    /\ clicks_left > 0
    /\ write_state
    /\ timers' = <<>>
    /\ clicks_left' = 0
    /\ presses_left' = 0
    /\ workers' = [i \in 1..Len(workers) |-> killed(workers[i])]
    /\ UNCHANGED <<env_vars, gps>>

(***************************************************************************)
(* Inputs and the specification of the application                          *)
(***************************************************************************)
\* how many interface events (clicks, keystrokes, timer callbacks) a
\* behaviour may hold
MaxClicks == 2

T_FW_UPPER == <<"F","W",".","U","F","2">>

T_FW_MISSING == <<"n","o",".","u","f","2">>

T_DRIVE_E == <<"E", ":", "\\">>

T_DRIVE_Z == <<"Z", ":", "\\">>

\* the files present: the three default images and one more
Firmware == {T_RAK_FW, T_V3_FW, T_V4_FW, T_FW_UPPER}

\* state.json as a previous session in Heltec V3 mode left it
SavedV3 ==
    [last_mode |-> "Heltec V3",
     modes |-> [m \in ModeSet |->
        IF m = "Heltec V3"
        THEN [firmware_path |-> T_V3_FW, uf2_drive |-> <<>>,
              owner_letters |-> <<"A","B">>, owner_num |-> <<"0","9">>,
              owner_short_letters |-> <<"A">>, owner_short_num |-> <<"9">>,
              lat |-> <<" ","1",".","5">>, lon |-> <<"2">>]
        ELSE NoEntry]]

StateFiles == {[exists |-> FALSE, content |-> EmptyState],
               [exists |-> TRUE, content |-> SavedV3]}

DriveSets == {<<>>, <<T_DRIVE_E>>}

\* what the user may type into each entry
Typed ==
    [k \in FieldNames |->
        CASE k = "firmware_path" -> {<<>>, T_FW_MISSING}
          [] k = "uf2_drive" -> {<<>>, T_DRIVE_Z}
          [] k = "owner_letters" -> {<<" ">>}
          [] k = "owner_num" -> {<<"1","a">>}
          [] k = "owner_short_letters" -> {<<>>}
          [] k = "owner_short_num" -> {<<>>}
          [] k = "lat" -> {<<"n","o">>}
          [] k = "lon" -> {<<"1","e">>}]

\* the bytes a process may print: "\n", "\r", "A" and the two bytes of U+00E9
OutputBytes == {LF, CR, 65, 195, 169}

Outputs(n) == UNION {[1..k -> OutputBytes] : k \in 0..n}

\* the output and exit codes of the external tools in Spec
AppOutputs == {<<>>, <<CR>>}

AppExitCodes == {0, 2}

vars == <<mode, field, save_after_id, timers, state, disk, erase_btn, drive_values,
          fs_files, uf2_drives, workers, clicks_left, presses_left, gps>>

Init ==
    /\ GpsInit
    /\ \E file \in StateFiles, attached \in DriveSets :
          AppInit(file, Firmware, attached, MaxClicks, 1)

Interface ==
    \/ \E m \in ModeSet : set_mode(m)
    \/ \E k \in FieldNames : \E v \in Typed[k] : edit_field(k, v)
    \/ \E p \in fs_files : pick_firmware(p)
    \/ _increment_owner_number
    \/ refresh_drives
    \/ _save_state

Buttons ==
    \/ flash_only
    \/ configure_only
    \/ erase_flash

\* the steps of the worker threads and of the processes they run
Threads ==
    \/ \E i \in 1..Len(workers) : erase_mode_check(i)
    \/ \E i \in 1..Len(workers) : validate(i)
    \/ \E i \in 1..Len(workers) : mode_log(i)
    \/ \E i \in 1..Len(workers) : _do_flash(i)
    \/ \E i \in 1..Len(workers) : copy_uf2_to_drive(i)
    \/ \E i \in 1..Len(workers) : wait_seconds(i)
    \/ \E i \in 1..Len(workers) : _do_configure(i)
    \/ \E i \in 1..Len(workers) : _do_erase(i)
    \/ \E i \in 1..Len(workers) : Popen(i, AppOutputs)
    \/ \E i \in 1..Len(workers) : proc_write(i)
    \/ \E i \in 1..Len(workers) : proc_close(i)
    \/ \E i \in 1..Len(workers) : proc_exit(i, AppExitCodes)
    \/ \E i \in 1..Len(workers) : read_byte(i)
    \/ \E i \in 1..Len(workers) : read_eof(i)
    \/ \E i \in 1..Len(workers) : wait(i)
    \/ \E i \in 1..Len(workers) : finish(i)
    \/ \E i \in 1..Len(workers) : except(i)

Next ==
    \/ Interface
    \/ Buttons
    \/ Threads

Spec == Init /\ [][Next]_vars

(***************************************************************************)
(* Claims about one action of the application (Spec)                        *)
(***************************************************************************)
Workers == {workers[i] : i \in 1..Len(workers)}

\* a worker took a step
stepped(i) == i \in 1..Len(workers) /\ workers'[i] # workers[i]

\* the conditions under which validation is to fail
C1_Invalid(m, f, files) ==
    \/ strip(f.firmware_path) = <<>>
    \/ strip(f.firmware_path) \notin files
    \/ MODE_DEFS[m].flash_method = "uf2_drive" /\ strip(f.uf2_drive) = <<>>
    \/ strip(f.owner_letters) = <<>>
    \/ strip(f.owner_short_letters) = <<>>
    \/ ~isdigit(strip(f.owner_num))
    \/ ~isdigit(strip(f.owner_short_num))
    \/ MODE_DEFS[m].gps_mode = "fixed"
          /\ (~float_ok(strip(f.lat)) \/ ~float_ok(strip(f.lon)))

\* a worker that has not passed validation has logged nothing but its error,
\* copied nothing and started nothing
C1_NoSideEffect(w) ==
    /\ w.copies = 0
    /\ w.launches = 0
    /\ w.waited = 0
    /\ w.cmd = <<>>
    /\ w.echoed = <<>>
    /\ \A j \in 1..Len(w.logged) : w.logged[j][1] = "ERROR"

\* C1: in the Flash, Configure and Erase workers nothing is logged, copied or
\* started before validation has passed; validation fails exactly under the
\* listed conditions (firmware path empty or no file, no drive in a UF2 mode,
\* owner letters empty, owner numbers not digits, latitude/longitude not
\* numeric in a fixed-GPS mode), and the worker then ends with the error
\* logged and shown and still no side effect.
C1_ValidationFirst ==
    /\ [](\A w \in Workers : ~w.validated => C1_NoSideEffect(w))
    /\ [](\A w \in Workers :
            w.pc = "failed" /\ ~w.validated
                => w.err # "" /\ w.errors_logged = 1 /\ w.dialogs = 1)
    /\ [][\A i \in 1..Len(workers) :
            workers[i].pc = "validate" /\ stepped(i)
                => IF C1_Invalid(mode, field, fs_files)
                   THEN workers'[i].pc = "except" /\ workers'[i].err # ""
                        /\ ~workers'[i].validated
                   ELSE workers'[i].validated /\ workers'[i].err = ""]_vars

\* a Flash worker was stopped by the latitude/longitude check
C1_Witness ==
    \E w \in Workers :
        /\ w.kind = "flash"
        /\ w.pc = "failed"
        /\ w.err = "Latitude/Longitude must be valid numbers for fixed position mode."
        /\ C1_NoSideEffect(w)

\* the source name ends in the .uf2 extension, in either case of its letters
C4_HasUf2Extension(path) ==
    LET n == Len(path)
    IN  /\ n >= 4
        /\ path[n - 3] = "."
        /\ path[n - 2] \in {"u", "U"}
        /\ path[n - 1] \in {"f", "F"}
        /\ path[n] = "2"

C4_ChecksPass(w, files, dirs) ==
    /\ w.fw \in files
    /\ C4_HasUf2Extension(w.fw)
    /\ w.drive \in dirs

\* C4: copy_uf2_to_drive raises one of its three errors and copies nothing
\* when the source is no existing file, or its name does not end in .uf2, or
\* the drive root does not exist; a copy is made only in copy_uf2_to_drive
\* and only when the three checks pass.
C4_CopyChecks ==
    [][\A i \in 1..Len(workers) :
        /\ workers[i].pc = "copy" /\ stepped(i)
            => IF C4_ChecksPass(workers[i], fs_files, dirs_present(uf2_drives))
               THEN workers'[i].copies = workers[i].copies + 1
               ELSE /\ workers'[i].copies = workers[i].copies
                    /\ ~workers'[i].copied
                    /\ workers'[i].pc = "except"
                    /\ workers'[i].err \in {"Firmware file not found.",
                                            "UF2 flashing requires a .uf2 file.",
                                            "Drive not found"}
        /\ workers'[i].copies # workers[i].copies => workers[i].pc = "copy"]_vars

\* a copy was refused for the extension, and nothing was copied
C4_Witness ==
    \E w \in Workers :
        /\ w.err = "UF2 flashing requires a .uf2 file."
        /\ w.pc = "failed"
        /\ w.copies = 0

C9_EsptoolArgs(fw) ==
    <<<<"e","s","p","t","o","o","l">>, <<"-","-","b","a","u","d">>,
      <<"1","1","5","2","0","0">>, <<"w","r","i","t","e","-","f","l","a","s","h">>,
      <<"0","x","0","0">>, fw>>

\* C9: a Flash worker dispatches on the flash method of the mode selected
\* when _do_flash runs and follows one path: for uf2_drive it copies at most
\* once, waits the 8 seconds only after a successful copy and never starts a
\* tool; for esptool it starts esptool once, with --baud 115200 write-flash
\* 0x00 and the firmware path, and never copies or waits.
C9_FlashDispatch ==
    /\ [](\A w \in Workers : w.kind = "flash" =>
            /\ w.method = ""
                => w.copies = 0 /\ w.launches = 0 /\ w.waited = 0
            /\ w.method = "uf2_drive"
                => /\ w.launches = 0 /\ w.cmd = <<>> /\ w.echoed = <<>>
                   /\ w.copies <= 1
                   /\ w.waited \in {0, 8}
                   /\ (w.waited = 8 => w.copied /\ w.copies = 1)
                   /\ (w.pc = "done" => w.waited = 8)
            /\ w.method = "esptool"
                => /\ w.copies = 0 /\ w.waited = 0
                   /\ w.launches <= 1
                   /\ w.cmd = C9_EsptoolArgs(w.fw)
                   /\ (w.launches = 1 => w.echoed = w.cmd)
                   /\ (w.pc \in {"read", "wait", "returned", "done"} => w.launches = 1))
    /\ [][\A i \in 1..Len(workers) :
            workers[i].kind = "flash" /\ workers[i].pc = "do" /\ stepped(i)
                => /\ workers'[i].method = MODE_DEFS[mode].flash_method
                   /\ workers'[i].fw = strip(field.firmware_path)]_vars

\* both paths were taken to their end: a UF2 copy with its wait, and a
\* completed esptool run
C9_WitnessUf2 ==
    \E w \in Workers :
        w.kind = "flash" /\ w.method = "uf2_drive" /\ w.pc = "done" /\ w.waited = 8

C9_WitnessEsptool ==
    \E w \in Workers :
        w.kind = "flash" /\ w.method = "esptool" /\ w.pc = "done" /\ w.launches = 1

C9_Witness == C9_WitnessUf2

C10_Completion == {"Flash done.", "Configuration complete.", "Erase complete."}

\* C10: a worker that fails logs its error once, shows one dialog and stops:
\* no settle wait and no completion message follow, the command is started
\* at most once, a failed worker never moves again, and a new worker appears
\* only with a button press.
C10_AbortOnFailure ==
    /\ [](\A w \in Workers :
            /\ w.errors_logged <= 1 /\ w.dialogs <= 1 /\ w.launches <= 1 /\ w.copies <= 1
            /\ (w.err # "" => w.pc \in {"except", "failed"})
            /\ (w.pc \in {"except", "failed"} => w.err # "")
            /\ (w.pc = "except" => w.errors_logged = 0 /\ w.dialogs = 0)
            /\ (w.pc = "failed"
                  => /\ w.errors_logged = 1 /\ w.dialogs = 1
                     /\ w.logged[Len(w.logged)] = <<"ERROR", w.err>>
                     /\ \A j \in 1..(Len(w.logged) - 1) :
                           /\ w.logged[j][1] # "ERROR"
                           /\ w.logged[j][1] \notin C10_Completion
                           /\ w.logged[j][1] # "Waiting for reboot..."
                     /\ w.waited = 0)
            /\ (w.pc \notin {"except", "failed"} => w.errors_logged = 0 /\ w.dialogs = 0))
    /\ [][\A i \in 1..Len(workers) :
            workers[i].pc = "failed" => workers'[i] = workers[i]]_vars
    /\ [][Len(workers') # Len(workers)
            => Len(workers') = Len(workers) + 1 /\ presses_left' = presses_left - 1]_vars

\* the three kinds of failure happened: a validation error, a copy error and
\* a non-zero exit
C10_WitnessExit ==
    \E w \in Workers :
        w.pc = "failed" /\ w.err = "Command failed" /\ w.err_rc = 2 /\ w.launches = 1

C10_WitnessCopy ==
    \E w \in Workers : w.pc = "failed" /\ w.err = "OSError" /\ w.copies = 1

C10_Witness == C10_WitnessExit

\* what a worker validated: the mode and field values read by the
\* _validate_common call it passed
C11_Validated(w) == w.seen

\* C11: a worker acts on a snapshot.  Whatever the interface thread does in
\* between, the mode line it logs, the flash method, firmware path and drive
\* it dispatches on, and the configuration command it builds (owner strings,
\* role, latitude/longitude) come from the mode and field values it
\* validated; and a worker's step changes nothing of the session but its own
\* record and log.
C11_Snapshot ==
    [][\A i \in 1..Len(workers) :
        stepped(i) =>
            LET w == workers[i]
                v == C11_Validated(w)
                n == workers'[i]
            IN  /\ UNCHANGED <<ui_vars, env_vars>>
                /\ w.pc = "mode_log"
                    => n.logged[Len(n.logged)] = <<"Mode", MODE_DEFS[v.mode].label>>
                /\ w.pc = "do" /\ w.kind = "flash"
                    => /\ n.method = MODE_DEFS[v.mode].flash_method
                       /\ n.fw = strip(v.field.firmware_path)
                       /\ n.method = "uf2_drive" => n.drive = strip(v.field.uf2_drive)
                /\ w.pc = "do" /\ w.kind = "configure"
                    => n.cmd = _meshtastic_config_cmd(v.mode, v.field)]_vars

\* a Flash worker validated in an esptool mode and then dispatched a UF2 copy
C11_Raced ==
    \E w \in Workers :
        /\ w.kind = "flash"
        /\ w.validated
        /\ MODE_DEFS[w.seen.mode].flash_method = "esptool"
        /\ w.method = "uf2_drive"

C15_Esptool(m) == m \in {"Heltec V3", "Heltec V4"}

C15_EraseArgs == <<<<"e","s","p","t","o","o","l">>,
                   <<"e","r","a","s","e","-","f","l","a","s","h">>>>

\* the Erase worker of C15: a worker that finds a mode that is not an esptool
\* mode fails with the error and starts nothing, and the erase command is
\* started only by a worker that passed the mode check and the validation
C15_WorkerChecks ==
    /\ [](\A w \in Workers : w.kind = "erase" =>
            /\ w.launches > 0 => w.validated /\ w.cmd = C15_EraseArgs
            /\ w.err = "Erase is only available for Heltec (esptool) modes."
                => w.launches = 0 /\ ~w.validated /\ w.cmd = <<>>)
    /\ [][\A i \in 1..Len(workers) :
            workers[i].pc = "mode_check" /\ stepped(i)
                => IF C15_Esptool(mode)
                   THEN workers'[i].pc = "validate"
                   ELSE /\ workers'[i].pc = "except"
                        /\ workers'[i].err =
                              "Erase is only available for Heltec (esptool) modes."]_vars

\* C15: Erase is available only for esptool modes.  In every state, start-up
\* and any sequence of mode switches included, the Erase button is shown
\* exactly when the flash method of the selected mode is esptool; and the
\* Erase worker checks the mode and validates before it starts the command.
C15_EraseOnlyEsptool ==
    /\ [](erase_btn <=> C15_Esptool(mode))
    /\ C15_WorkerChecks

\* the application was started in RAK4631 mode, the Erase button is there
\* and was pressed, and the worker's mode check refused
C15_Shown ==
    /\ mode = "RAK4631"
    /\ erase_btn
    /\ clicks_left = MaxClicks
    /\ \E w \in Workers :
          /\ w.kind = "erase"
          /\ w.pc = "failed"
          /\ w.err = "Erase is only available for Heltec (esptool) modes."

\* after a press of a mode button the Erase button is shown exactly in the
\* esptool modes
C15_AfterSwitch ==
    [][\A m \in ModeSet : set_mode(m) => (erase_btn' <=> C15_Esptool(m))]_vars

\* a step that runs refresh_drives: the Refresh button, or a mode button of a
\* uf2_drive mode (apply_mode)
C16_Refreshed ==
    \/ refresh_drives
    \/ \E m \in ModeSet : MODE_DEFS[m].flash_method = "uf2_drive" /\ set_mode(m)

C16_Detected(d) ==
    \E i \in 1..Len(detect_uf2_drives(uf2_drives)) : detect_uf2_drives(uf2_drives)[i] = d

\* the two assignments of refresh_drives: the selection is cleared when no
\* drive is detected, and the Refresh button sets an empty selection to the
\* first detected drive
C16_Assignments ==
    [][/\ C16_Refreshed /\ detect_uf2_drives(uf2_drives) = <<>>
            => field'.uf2_drive = <<>>
       /\ refresh_drives /\ detect_uf2_drives(uf2_drives) # <<>> /\ field.uf2_drive = <<>>
            => field'.uf2_drive = detect_uf2_drives(uf2_drives)[1]
       /\ C16_Refreshed => drive_values' = detect_uf2_drives(uf2_drives)]_vars

\* C16: after refresh_drives (the Refresh button, or a uf2_drive mode being
\* applied) the selected UF2 drive is empty or one of the drives detected;
\* it is cleared when none is detected and set to the first when it was empty.
C16_SelectionDetected ==
    /\ [][C16_Refreshed
            => field'.uf2_drive = <<>> \/ C16_Detected(field'.uf2_drive)]_vars
    /\ C16_Assignments

\* Refresh was pressed with a drive detected, and the selection is still the
\* drive that was typed into the box, which is not among the detected ones
C16_Stale ==
    /\ MODE_DEFS[mode].flash_method = "uf2_drive"
    /\ clicks_left = MaxClicks - 2
    /\ workers = <<>>
    /\ detect_uf2_drives(uf2_drives) = <<T_DRIVE_E>>
    /\ drive_values = <<T_DRIVE_E>>
    /\ field.uf2_drive = T_DRIVE_Z
    /\ ~C16_Detected(field.uf2_drive)
    /\ \A k \in FieldNames \ {"uf2_drive"} :
          field[k] = apply_mode_fields(mode, InitialFields, state, uf2_drives)[k]

(***************************************************************************)
(* Several presses of the action buttons, and Exit (SpecTwo)                *)
(***************************************************************************)
\* how many times an action button is pressed
MaxPresses == 2

TwoInit ==
    /\ GpsInit
    /\ \E file \in StateFiles :
          AppInit(file, Firmware, <<T_DRIVE_E>>, MaxClicks, MaxPresses)

TwoNext ==
    \/ Buttons
    \/ _exit_app
    \/ Threads

\* a thread that can run is scheduled, a started process ends, and an error
\* dialog is dismissed
TwoFair == WF_vars(Threads)

SpecTwo == TwoInit /\ [][TwoNext]_vars /\ TwoFair

\* worker i exists and is at one of the positions ps
C12_At(i, ps) == i <= Len(workers) /\ workers[i].pc \in ps

\* the external process of worker w is running
C12_InFlight(w) == w.pc \in {"read", "wait"} /\ ~w.exited

\* the safety part of C12: a press is possible whatever the earlier workers
\* are doing and adds exactly one worker, leaving the others as they are;
\* only Exit ends a worker that has not finished
C12_OnePerPress ==
    /\ [](presses_left > 0
            => /\ ENABLED flash_only
               /\ ENABLED configure_only
               /\ (erase_btn => ENABLED erase_flash))
    /\ [][/\ presses_left' = presses_left - 1 /\ clicks_left' = clicks_left
             => /\ Len(workers') = Len(workers) + 1
                /\ SubSeq(workers', 1, Len(workers)) = workers
                /\ workers'[Len(workers')].pc \in {"mode_check", "validate"}
          /\ Len(workers') # Len(workers) => presses_left' = presses_left - 1
          /\ \A i \in 1..Len(workers) :
                workers[i].pc # "killed" /\ workers'[i].pc = "killed"
                    => clicks_left > 0 /\ clicks_left' = 0]_vars

\* C12 as amended: each press of Flash, Configure or Erase starts exactly one
\* worker, also while another worker is running, so two workers with two
\* external processes can be in flight together; no operation of the
\* interface cancels a worker, and a worker whose process ends runs to
\* completion or failure unless Exit ends the application, and with it the
\* daemon thread, first.
C12_Workers ==
    /\ C12_OnePerPress
    /\ \A i \in 1..MaxPresses :
          C12_At(i, {"mode_check", "validate"})
              ~> C12_At(i, {"done", "failed", "killed"})

\* C12 as stated: a started worker always runs to completion or failure
C12_Original ==
    /\ C12_OnePerPress
    /\ \A i \in 1..MaxPresses :
          C12_At(i, {"mode_check", "validate"}) ~> C12_At(i, {"done", "failed"})

\* two workers are in flight, each with its external process running
C12_Witness ==
    /\ Len(workers) >= 2
    /\ C12_InFlight(workers[1])
    /\ C12_InFlight(workers[2])

(***************************************************************************)
(* Field changes, mode switches, the save timer and Exit (SpecSave)         *)
(***************************************************************************)
SaveInit ==
    /\ GpsInit
    /\ \E file \in StateFiles, attached \in DriveSets :
          AppInit(file, Firmware, attached, MaxClicks, 0)

SaveNext ==
    \/ \E m \in ModeSet : set_mode(m)
    \/ \E k \in FieldNames : \E v \in Typed[k] : edit_field(k, v)
    \/ \E p \in fs_files : pick_firmware(p)
    \/ _increment_owner_number
    \/ refresh_drives
    \/ _exit_app
    \/ timer_due
    \/ timer_fire

\* time passes, and the Tk event loop runs a timer that is due
SaveFair == WF_vars(timer_due) /\ WF_vars(timer_fire)

SpecSave == SaveInit /\ [][SaveNext]_vars /\ SaveFair

\* a write of the settings: the entry of the selected mode becomes the
\* current field values, the other entries stay, and the file holds the result
C13_WritesCurrent ==
    /\ state'.last_mode = mode
    /\ state'.modes[mode] = field
    /\ \A m \in ModeSet \ {mode} : state'.modes[m] = state.modes[m]
    /\ disk' = [exists |-> TRUE, content |-> state']
    /\ UNCHANGED <<mode, field>>

\* C13: saving is debounced.  At most one save timer is pending, and
\* _save_after_id holds its id; every change of a field cancels the pending
\* timer and arms a new one, whose 300 ms start with that change; the
\* settings are written only when a timer has run its 300 ms without another
\* change (or on Exit), the write records the field values of that moment,
\* and it leaves no timer behind, so a burst of changes gives one write.
C13_Debounce ==
    /\ [](Len(timers) <= 1 /\ (save_after_id <=> timers # <<>>))
    /\ [][field' # field => timers' = <<FALSE>> /\ save_after_id']_vars
    /\ [][state' # state \/ disk' # disk
            => /\ C13_WritesCurrent
               /\ timers' = <<>>
               /\ ~save_after_id'
               /\ (timers = <<TRUE>> \/ _exit_app)]_vars

\* two changes were typed and one write followed them: the file holds both
C13_Witness ==
    /\ clicks_left = MaxClicks - 2
    /\ timers = <<>>
    /\ field.owner_letters = <<" ">>
    /\ field.owner_num = <<"1","a">>
    /\ disk.exists
    /\ disk.content.modes[mode] = field

\* the fields only the user's typing changes while a mode stays selected
C14_Fields == {"owner_letters", "owner_short_letters", "lat", "lon"}

\* C14: field values are persisted per mode.  A value that a field holds
\* while mode M is selected is eventually written into M's saved entry, after
\* the debounce or on Exit, whatever edits and mode switches follow.
C14_PerMode ==
    \A M \in ModeSet : \A k \in C14_Fields : \A v \in Typed[k] :
        (mode = M /\ field[k] = v) ~> (state.modes[M][k] = v)

\* a value typed under RAK4631 was left behind by a mode switch: the save
\* that followed wrote the entry of the new mode only, and no timer is left
C14_Lost ==
    /\ mode = "Heltec V4"
    /\ timers = <<>>
    /\ state.modes["Heltec V4"].owner_letters = <<" ">>
    /\ state.modes["RAK4631"].owner_letters # <<" ">>
    /\ disk.content = state

(***************************************************************************)
(* One press of Configure over many configurations                          *)
(***************************************************************************)
CfgLetters == {<<"M","T">>, <<" ","M","T">>, <<"A"," ","B"," ">>}

CfgNumbers == {<<"0","1">>, <<" ","7"," ">>, <<"x">>}

CfgShortLetters == {<<"M","T">>, <<" ">>}

CfgShortNumbers == {<<"0","1">>, <<"2"," ">>}

CfgLats == {<<"3","7",".","8","6","5","1">>, <<" ","-","1",".","5"," ">>, <<"a","b","c">>}

CfgLons == {<<"-","1","1","9",".","5","3","8","3">>, <<"1","e","3"," ">>}

\* state.json of a previous session that ended in mode m with the entry e
SavedAs(m, e) ==
    [exists |-> TRUE,
     content |-> [last_mode |-> m, modes |-> [k \in ModeSet |-> IF k = m THEN e ELSE NoEntry]]]

CfgInit ==
    /\ GpsInit
    /\ \E m \in ModeSet, ol \in CfgLetters, on \in CfgNumbers, sl \in CfgShortLetters,
          sn \in CfgShortNumbers, la \in CfgLats, lo \in CfgLons :
          AppInit(SavedAs(m, [firmware_path |-> MODE_DEFS[m].firmware_default,
                              uf2_drive |-> T_DRIVE_E,
                              owner_letters |-> ol, owner_num |-> on,
                              owner_short_letters |-> sl, owner_short_num |-> sn,
                              lat |-> la, lon |-> lo]),
                  Firmware, <<T_DRIVE_E>>, 0, 1)

CfgNext ==
    \/ configure_only
    \/ \E i \in 1..Len(workers) : validate(i)
    \/ \E i \in 1..Len(workers) : mode_log(i)
    \/ \E i \in 1..Len(workers) : _do_configure(i)
    \/ \E i \in 1..Len(workers) : Popen(i, AppOutputs)
    \/ \E i \in 1..Len(workers) : proc_write(i)
    \/ \E i \in 1..Len(workers) : proc_close(i)
    \/ \E i \in 1..Len(workers) : proc_exit(i, AppExitCodes)
    \/ \E i \in 1..Len(workers) : read_byte(i)
    \/ \E i \in 1..Len(workers) : read_eof(i)
    \/ \E i \in 1..Len(workers) : wait(i)
    \/ \E i \in 1..Len(workers) : finish(i)
    \/ \E i \in 1..Len(workers) : except(i)

SpecCfg == CfgInit /\ [][CfgNext]_vars

(***************************************************************************)
(* Claims about the configuration command (SpecCfg)                         *)
(***************************************************************************)
\* the positions of the argument arg in cmd
positions(cmd, arg) == {j \in 1..Len(cmd) : cmd[j] = arg}

\* cmd holds the arguments args next to each other
has_args(cmd, args) ==
    \E j \in 0..(Len(cmd) - Len(args)) : SubSeq(cmd, j + 1, j + Len(args)) = args

C5_FixedPosition == <<"p","o","s","i","t","i","o","n",".","f","i","x","e","d","_",
                      "p","o","s","i","t","i","o","n">>

C5_Set == <<"-","-","s","e","t">>

C5_SetLat == <<"-","-","s","e","t","l","a","t">>

C5_SetLon == <<"-","-","s","e","t","l","o","n">>

C5_Role(m) ==
    CASE m = "RAK4631" -> <<"R","O","U","T","E","R">>
      [] m \in {"Heltec V3", "Heltec V4"} -> <<"C","L","I","E","N","T">>

\* the command of C5 for latitude and longitude arguments la and lo
C5_Shape(cmd, m, la, lo) ==
    /\ Cardinality(positions(cmd, C5_FixedPosition)) = 1
    /\ has_args(cmd, <<C5_Set, <<"d","e","v","i","c","e",".","r","o","l","e">>, C5_Role(m)>>)
    /\ IF m = "RAK4631"
       THEN /\ has_args(cmd, <<C5_Set, C5_FixedPosition, <<"t","r","u","e">>>>)
            /\ Cardinality(positions(cmd, C5_SetLat)) = 1
            /\ Cardinality(positions(cmd, C5_SetLon)) = 1
            /\ has_args(cmd, <<C5_SetLat, la>>)
            /\ has_args(cmd, <<C5_SetLon, lo>>)
       ELSE /\ has_args(cmd, <<C5_Set, C5_FixedPosition, <<"f","a","l","s","e">>>>)
            /\ positions(cmd, C5_SetLat) = {}
            /\ positions(cmd, C5_SetLon) = {}

\* C5 as amended: the command sets position.fixed_position exactly once; in
\* the fixed-GPS mode to true, with --setlat and --setlon carrying the
\* latitude and longitude entered, stripped of leading and trailing
\* whitespace and otherwise literal; in the other modes to false, with no
\* --setlat or --setlon; device.role is the role of the selected mode.
C5_ConfigCommand ==
    \A w \in Workers :
        w.kind = "configure" /\ w.cmd # <<>>
            => C5_Shape(w.cmd, mode, strip(field.lat), strip(field.lon))

\* C5 as stated: --setlat and --setlon carry the values as entered
C5_Original ==
    \A w \in Workers :
        w.kind = "configure" /\ w.cmd # <<>>
            => C5_Shape(w.cmd, mode, field.lat, field.lon)

\* a command was built in the fixed-GPS mode from a latitude entered with
\* blanks around it, and one in a mode without fixed position
C5_WitnessFixed ==
    \E w \in Workers :
        /\ w.kind = "configure" /\ w.cmd # <<>>
        /\ mode = "RAK4631"
        /\ field.lat = <<" ","-","1",".","5"," ">>
        /\ has_args(w.cmd, <<C5_SetLat, <<"-","1",".","5">>>>)

C5_WitnessGps ==
    \E w \in Workers :
        w.kind = "configure" /\ w.cmd # <<>> /\ mode = "Heltec V4"

C5_Witness == C5_WitnessFixed

C7_SetOwner == <<"-","-","s","e","t","-","o","w","n","e","r">>

C7_SetOwnerShort == <<"-","-","s","e","t","-","o","w","n","e","r","-","s","h","o","r","t">>

\* C7 as amended: the owner long and short names passed to the tool are the
\* letters field followed by the number field with nothing between them,
\* each field taken without its leading and trailing whitespace.
C7_OwnerStrings ==
    \A w \in Workers :
        w.kind = "configure" /\ w.cmd # <<>>
            => /\ has_args(w.cmd, <<C7_SetOwner,
                        strip(field.owner_letters) \o strip(field.owner_num)>>)
               /\ has_args(w.cmd, <<C7_SetOwnerShort,
                        strip(field.owner_short_letters) \o strip(field.owner_short_num)>>)
               /\ Cardinality(positions(w.cmd, C7_SetOwner)) = 1
               /\ Cardinality(positions(w.cmd, C7_SetOwnerShort)) = 1

\* C7 as stated: the fields as they are, one after the other
C7_Original ==
    \A w \in Workers :
        w.kind = "configure" /\ w.cmd # <<>>
            => /\ has_args(w.cmd, <<C7_SetOwner, field.owner_letters \o field.owner_num>>)
               /\ has_args(w.cmd, <<C7_SetOwnerShort,
                        field.owner_short_letters \o field.owner_short_num>>)

\* letters "MT" and number "01" gave "MT01", next to an owner name built
\* from fields entered with blanks
C7_Witness ==
    \E w \in Workers :
        /\ w.kind = "configure" /\ w.cmd # <<>>
        /\ field.owner_short_letters = <<"M","T">>
        /\ field.owner_short_num = <<"0","1">>
        /\ has_args(w.cmd, <<C7_SetOwnerShort, <<"M","T","0","1">>>>)
        /\ field.owner_letters = <<" ","M","T">>
        /\ field.owner_num = <<" ","7"," ">>
        /\ has_args(w.cmd, <<C7_SetOwner, <<"M","T","7">>>>)

(***************************************************************************)
(* One press in an esptool mode, over many process outputs                  *)
(***************************************************************************)
\* the longest output of a process
MaxOutput == 3

RunExitCodes == {0, 1, 255}

RunInit ==
    /\ GpsInit
    /\ AppInit([exists |-> TRUE, content |-> SavedV3], Firmware, <<>>, 0, 1)

RunNext ==
    \/ Buttons
    \/ \E i \in 1..Len(workers) : erase_mode_check(i)
    \/ \E i \in 1..Len(workers) : validate(i)
    \/ \E i \in 1..Len(workers) : mode_log(i)
    \/ \E i \in 1..Len(workers) : _do_flash(i)
    \/ \E i \in 1..Len(workers) : _do_configure(i)
    \/ \E i \in 1..Len(workers) : _do_erase(i)
    \/ \E i \in 1..Len(workers) : Popen(i, Outputs(MaxOutput))
    \/ \E i \in 1..Len(workers) : proc_write(i)
    \/ \E i \in 1..Len(workers) : proc_close(i)
    \/ \E i \in 1..Len(workers) : proc_exit(i, RunExitCodes)
    \/ \E i \in 1..Len(workers) : read_byte(i)
    \/ \E i \in 1..Len(workers) : read_eof(i)
    \/ \E i \in 1..Len(workers) : wait(i)
    \/ \E i \in 1..Len(workers) : finish(i)
    \/ \E i \in 1..Len(workers) : except(i)

SpecRun == RunInit /\ [][RunNext]_vars

(***************************************************************************)
(* Claims about run_cmd_stream (SpecRun)                                    *)
(***************************************************************************)
\* everything the process printed has been read and passed to the sink
C2_AllForwarded(w) ==
    /\ w.unwritten = <<>>
    /\ w.pipe = <<>>
    /\ w.closed
    /\ Len(w.sink) = Len(w.output)

\* C2: run_cmd_stream returns normally exactly when the process exited with
\* code 0; for an exit code rc # 0 it raises "Command failed" carrying rc;
\* either happens only once the process has exited and all of its output has
\* been forwarded.
C2_ExitCode ==
    \A w \in Workers :
        /\ w.pc \in {"returned", "done"}
              => w.launches = 1 /\ w.exited /\ w.rc = 0 /\ C2_AllForwarded(w)
        /\ w.err = "Command failed"
              => /\ w.exited /\ w.rc # 0 /\ w.err_rc = w.rc
                 /\ C2_AllForwarded(w)
        /\ w.exited /\ w.pc \notin {"read", "wait"}
              => IF w.rc = 0
                 THEN w.pc \in {"returned", "done"} /\ w.err = ""
                 ELSE w.pc \in {"except", "failed"} /\ w.err = "Command failed"
                      /\ w.err_rc = w.rc

\* a process that printed the longest output and exited with 255 made
\* run_cmd_stream raise with 255
C2_Witness ==
    \E w \in Workers :
        /\ w.pc = "failed"
        /\ w.err = "Command failed"
        /\ w.err_rc = 255
        /\ Len(w.output) = MaxOutput
        /\ Len(w.sink) = MaxOutput

\* the text of a byte stream: UTF-8 of one and two bytes, U+FFFD for a byte
\* that is no part of a character
RECURSIVE C3_Text(_)
C3_Text(bytes) ==
    IF bytes = <<>> THEN <<>>
    ELSE LET b == Head(bytes)
         IN  IF b < 128
             THEN <<b>> \o C3_Text(Tail(bytes))
             ELSE IF b \in 194..223 /\ Len(bytes) >= 2 /\ bytes[2] \in 128..191
             THEN <<(b % 32) * 64 + (bytes[2] % 64)>>
                     \o C3_Text(SubSeq(bytes, 3, Len(bytes)))
             ELSE <<REPLACEMENT>> \o C3_Text(Tail(bytes))

\* the process output with each carriage return replaced by a newline
C3_Expected(bytes) ==
    LET text == C3_Text(bytes)
    IN  [j \in 1..Len(text) |-> IF text[j] = 13 THEN 10 ELSE text[j]]

\* C3: once the stream has been read to its end, the sink holds the process
\* output in order, each carriage return replaced by a newline and every
\* other character unmodified.
C3_Forwarding ==
    \A w \in Workers : w.pc # "read" => w.sink = C3_Expected(w.output)

\* what does hold: one code point per byte, in order, a carriage return
\* replaced by a newline, a byte of 128 or more by U+FFFD
C3_BytewiseForwarding ==
    \A w \in Workers :
        /\ Len(w.sink) + Len(w.pipe) + Len(w.unwritten) = Len(w.output)
        /\ \A j \in 1..Len(w.sink) :
              w.sink[j] = (CASE w.output[j] = 13 -> 10
                             [] w.output[j] >= 128 -> 65533
                             [] OTHER -> w.output[j])

(***************************************************************************)
(* "++" over many contents of the number fields                             *)
(***************************************************************************)
\* the longest text of the owner number field
MaxNumLen == 3

IncChars == {"0", "1", "9", " ", "-", "x"}

NumberTexts == UNION {[1..k -> IncChars] : k \in 0..MaxNumLen}

ShortNumberTexts == {<<>>, <<"9">>, <<"0","0","9">>}

IncInit ==
    /\ GpsInit
    /\ \E a \in NumberTexts, b \in ShortNumberTexts :
          /\ disk = [exists |-> FALSE, content |-> EmptyState]
          /\ fs_files = Firmware
          /\ uf2_drives = <<>>
          /\ state = _load_state(disk)
          /\ mode = restored_mode(state)
          /\ field = [apply_mode_fields(mode, InitialFields, state, <<>>) EXCEPT
                         !.owner_num = a, !.owner_short_num = b]
          /\ drive_values = <<>>
          /\ \E ismapped \in init_ismapped(mode, <<>>) :
                erase_btn = apply_mode_erase(mode, TRUE, ismapped)
          /\ save_after_id = TRUE
          /\ timers = _schedule_save(<<>>, FALSE)
          /\ workers = <<>>
          /\ clicks_left = MaxClicks
          /\ presses_left = 0

IncNext == _increment_owner_number

SpecInc == IncInit /\ [][IncNext]_vars

(***************************************************************************)
(* Claims about "++" (SpecInc)                                              *)
(***************************************************************************)
RECURSIVE C6_Pow10(_)
C6_Pow10(k) == IF k = 0 THEN 1 ELSE 10 * C6_Pow10(k - 1)

\* t is what "++" is to leave in a field that held the digit string s
C6_Incremented(s, t) ==
    /\ isdigit(t)
    /\ digits_value(t) = digits_value(s) + 1
    /\ Len(t) = IF digits_value(s) + 1 < C6_Pow10(Len(s)) THEN Len(s) ELSE Len(s) + 1
    /\ Len(t) >= Len(s)

\* C6: "++" replaces a number field holding a digit string s by the decimal
\* of int(s)+1 zero-filled to the length of s: the width is kept when the
\* result fits and grows by one digit on overflow, the result is never
\* shorter than s; both number fields are incremented and the letters fields
\* are left alone.
C6_Increment ==
    [][/\ isdigit(field.owner_num)
            => C6_Incremented(field.owner_num, field'.owner_num)
       /\ isdigit(field.owner_short_num)
            => C6_Incremented(field.owner_short_num, field'.owner_short_num)
       /\ field'.owner_letters = field.owner_letters
       /\ field'.owner_short_letters = field.owner_short_letters]_vars

\* "++" has run once and left "10" (from "9") as the owner number and "010"
\* (from "009") as the owner-short number
C6_Witness ==
    /\ clicks_left = MaxClicks - 1
    /\ field.owner_num = <<"1","0">>
    /\ field.owner_short_num = <<"0","1","0">>

(***************************************************************************)
(* The specification of the GPS query                                       *)
(***************************************************************************)
\* the application is not running beside the query
GpsOnlyInit ==
    /\ GpsInit
    /\ AppInit([exists |-> FALSE, content |-> EmptyState], Firmware, <<>>, 0, 0)

SpecGps == GpsOnlyInit /\ [][GpsNext]_vars


\* C8: with no report from any poll the loop stops after at most 15 polls,
\* only once the 15-second window has closed, and the query raises the
\* "No GPS fix" error; coordinates are returned only when a poll obtained a
\* report.
C8_FixTimeout ==
    /\ gps.polls <= FixWindowSecs
    /\ (gps.pc \in {"coords", "returned"} => gps.reported)
    /\ (gps.pc = "after" /\ ~gps.reported => gps.elapsed >= FixWindowSecs)
    /\ (gps.result = "No GPS fix" /\ ~gps.reported => gps.elapsed >= FixWindowSecs)
    /\ (gps.pc \in {"raised", "returned"} /\ gps.polls > 0 /\ ~gps.reported
            => gps.result = "No GPS fix")

\* the window ran out after the largest possible number of polls, none of
\* which produced a report, and the timeout error was raised
C8_Witness ==
    /\ gps.result = "No GPS fix"
    /\ gps.polls = FixWindowSecs
    /\ ~gps.reported
====
